---- MODULE Spec2Model ----
\* Model of quinn/src/runtime.rs: the UdpPollHelper poller adapter, the
\* default_runtime selection, and the AsyncTimer / AsyncUdpSocket contracts
\* the runtime backends implement.
EXTENDS Integers, Sequences, FiniteSets, TLC

\* ---------------------------------------------------------------- bounds
MaxHelpers == 2      \* UdpPollHelper instances created by create_io_poller
MaxPolls == 3        \* poll_writable calls made in one run, over all helpers
MaxCalls == 3        \* default_runtime calls recorded
MaxTime == 2         \* clock values 0..MaxTime
MaxTimerOps == 3     \* reset/poll events recorded on the timer
MaxDatagrams == 3    \* datagrams that arrive on the socket
MaxSlots == 2        \* receive slots a poll_recv call supplies
MaxSegments == 2     \* segment counts a backend may advertise
MaxQueries == 3      \* capability calls recorded

Helpers == 1..MaxHelpers
Tasks == {1, 2}      \* the tasks whose wakers the Contexts carry
Times == 0..MaxTime

VARIABLES
    \* --- UdpPollHelper instances (runtime.rs 83-113)
    nHelpers,       \* helpers created so far (ids 1..nHelpers)
    fut,            \* fut[h]: the retained operation slot, None or an operation
    factoryCalls,   \* factoryCalls[h]: invocations of h's factory so far
    readyCount,     \* readyCount[h]: poll_writable calls on h that returned Ready
    polls,          \* polls[h]: poll_writable calls on h so far
    last,           \* last[h]: record of the most recent poll_writable call on h:
                    \*   its number among all calls, the slot's operation before it,
                    \*   whether it invoked the factory, the operation it polled,
                    \*   what it returned, and the socket's state when it was made
    prev,           \* prev[h]: what the call before it returned, and from which operation
    resolved,       \* resolved[h]: the operations of h that have returned Ready
    \* --- the socket behind the factory's operations
    writable,       \* the socket's write readiness
    sockErr,        \* a pending socket error
    sendBlocked,    \* the most recent try_send returned WouldBlock
    \* --- runtime selection (runtime.rs 121-141)
    feature_tokio,      \* cfg(feature = "runtime-tokio")
    feature_async_std,  \* cfg(feature = "runtime-async-std")
    inTokio,            \* tokio::runtime::Handle::try_current().is_ok()
    history,            \* default_runtime calls: the context and the result of each
    \* --- one AsyncTimer
    now,            \* the clock
    timer,          \* the timer's state and deadline
    ttrace,         \* the reset/poll events on the timer, in order
    \* --- the receive side of one AsyncUdpSocket
    rqueue,         \* datagrams buffered on the socket, oldest first
    arrived,        \* datagrams that have arrived so far (numbered 1..arrived)
    delivered,      \* datagrams poll_recv has returned, in order
    rwait,          \* the caller's wait: "none", "registered", "woken" or "dropped"
    dropMark,       \* the value of `arrived` when a wait was last dropped
    rlast,          \* record of the most recent poll_recv call
    \* --- the capability methods of one AsyncUdpSocket implementation
    caps,           \* per method: whether the backend overrides it, and with what
    caplog          \* the capability calls made: the method and the value returned

pollerVars == <<nHelpers, fut, factoryCalls, readyCount, polls, last, prev, resolved,
                writable, sockErr, sendBlocked>>
runtimeVars == <<feature_tokio, feature_async_std, inTokio, history>>
timerVars == <<now, timer, ttrace>>
recvVars == <<rqueue, arrived, delivered, rwait, dropMark, rlast>>
capVars == <<caps, caplog>>
vars == <<pollerVars, runtimeVars, timerVars, recvVars, capVars>>

\* ------------------------------------------------------- Poll<io::Result<()>>
\* `op` tags a Ready value with the operation that resolved with it.
Pending == [kind |-> "Pending", val |-> "none", op |-> 0]
Ready(v, o) == [kind |-> "Ready", val |-> v, op |-> o]
is_ready(result) == result.kind = "Ready"
\* the call did not return: Option::unwrap on None panics
Panicked == [kind |-> "Panic", val |-> "none", op |-> 0]

\* --------------------------------------------------------- Option<T> slot
\* An operation is its number among those its helper's factory produced, the
\* waker it holds (0: none) and whether that waker has been invoked.
None == [id |-> 0, waker |-> 0, notified |-> FALSE]

\* (this.f)(): the factory produces a fresh operation
Factory(h) == [id |-> factoryCalls[h] + 1, waker |-> 0, notified |-> FALSE]

\* UdpPollHelper::new: Self { f, fut: None }
UdpPollHelper_new_eager == [id |-> 1, waker |-> 0, notified |-> FALSE]
UdpPollHelper_new == None

\* this.fut.is_none()
is_none_always(slot) == TRUE
is_none_inverted(slot) == slot.id # 0
is_none(slot) == slot.id = 0

\* line 107 runs on every call, whichever branch line 104 took
PolledThisCall_skip_fresh(slot) == slot.id # 0
PolledThisCall_never(slot) == FALSE
PolledThisCall(slot) == TRUE

\* if result.is_ready() { this.fut.set(None); }
FutAfterPoll_ok_only(slot, result) ==
    IF is_ready(result) /\ result.val = "Ok" THEN None ELSE slot
FutAfterPoll_always(slot, result) == None
FutAfterPoll_never(slot, result) == slot
FutAfterPoll(slot, result) == IF is_ready(result) THEN None ELSE slot

\* ------------------------------------------------- the socket (backend)
SockReady == writable \/ sockErr

\* T::poll of the operation the factory produced: the backend's writability
\* check, made against the socket's readiness at the time of the poll.
OpPoll(op) ==
    IF sockErr THEN Ready("Err", op.id)
    ELSE IF writable THEN Ready("Ok", op.id)
    ELSE Pending

\* a pending operation keeps the waker of the context it was last polled with
Register(op, t) == [op EXCEPT !.waker = t, !.notified = FALSE]

\* a readiness event wakes every registered waker
Notify(slot) == IF slot.id # 0 /\ slot.waker # 0
                THEN [slot EXCEPT !.notified = TRUE] ELSE slot

RECURSIVE SumTo(_, _)
SumTo(f, n) == IF n = 0 THEN 0 ELSE f[n] + SumTo(f, n - 1)
TotalPolls == SumTo(polls, MaxHelpers)

NoCall == [seq |-> 0, task |-> 0, slotBefore |-> 0, invoked |-> FALSE, op |-> 0,
           stale |-> FALSE, ret |-> Pending,
           sockReady |-> FALSE, sendBlocked |-> FALSE]
NoPrev == [kind |-> "none", op |-> 0, slotBefore |-> 0, task |-> 0]

InitPoller ==
    /\ nHelpers = 0
    /\ fut = [h \in Helpers |-> None]
    /\ factoryCalls = [h \in Helpers |-> 0]
    /\ readyCount = [h \in Helpers |-> 0]
    /\ polls = [h \in Helpers |-> 0]
    /\ last = [h \in Helpers |-> NoCall]
    /\ prev = [h \in Helpers |-> NoPrev]
    /\ resolved = [h \in Helpers |-> {}]
    /\ writable = TRUE
    /\ sockErr = FALSE
    /\ sendBlocked = FALSE

\* AsyncUdpSocket::create_io_poller: Box::pin(UdpPollHelper::new(f))
create_io_poller ==
    /\ nHelpers < MaxHelpers
    /\ nHelpers' = nHelpers + 1
    /\ fut' = [fut EXCEPT ![nHelpers + 1] = UdpPollHelper_new]
    /\ UNCHANGED <<factoryCalls, readyCount, polls, last, prev, resolved,
                   writable, sockErr, sendBlocked>>

\* ---- the steps of UdpPollHelper::poll_writable on helper h
\* line 104: the factory is invoked in this call
CallInvoked(h) == is_none(fut[h])
\* the slot when line 107 reads it
CallSlot(h) == IF CallInvoked(h) THEN Factory(h) ELSE fut[h]
\* line 107: as_pin_mut().unwrap() panics on an empty slot; else the
\* operation in the slot is polled with cx
CallPolled(h) == CallSlot(h).id # 0 /\ PolledThisCall(fut[h])
CallResult(h) ==
    IF CallSlot(h).id = 0 THEN Panicked
    ELSE IF CallPolled(h) THEN OpPoll(CallSlot(h))
    ELSE Pending
\* the slot when the call returns, cx carrying the waker of task t
CallSlotAfter(h, t) ==
    LET result == CallResult(h)
        slot2 == IF CallPolled(h) /\ result.kind = "Pending"
                 THEN Register(CallSlot(h), t) ELSE CallSlot(h)
    IN IF result.kind = "Panic" THEN CallSlot(h) ELSE FutAfterPoll(slot2, result)
\* the record of the call, the n-th of the run
CallRecord(h, t, n) ==
    [seq |-> n, task |-> t,
     slotBefore |-> fut[h].id, invoked |-> CallInvoked(h),
     op |-> IF CallPolled(h) THEN CallSlot(h).id ELSE 0,
     stale |-> CallPolled(h) /\ CallSlot(h).id \in resolved[h],
     ret |-> CallResult(h),
     sockReady |-> SockReady, sendBlocked |-> sendBlocked]

\* UdpPollHelper::poll_writable(self, cx), cx carrying the waker of task t
poll_writable(h, t) ==
    /\ h \in 1..nHelpers
    /\ TotalPolls < MaxPolls
    /\ LET invoked == CallInvoked(h)
           result == CallResult(h)
       IN /\ fut' = [fut EXCEPT ![h] = CallSlotAfter(h, t)]
          /\ factoryCalls' = [factoryCalls EXCEPT ![h] = @ + (IF invoked THEN 1 ELSE 0)]
          /\ readyCount' = [readyCount EXCEPT ![h] = @ + (IF is_ready(result) THEN 1 ELSE 0)]
          /\ polls' = [polls EXCEPT ![h] = @ + 1]
          /\ prev' = [prev EXCEPT ![h] = [kind |-> last[h].ret.kind, op |-> last[h].op,
                                           slotBefore |-> last[h].slotBefore,
                                           task |-> last[h].task]]
          /\ last' = [last EXCEPT ![h] = CallRecord(h, t, TotalPolls + 1)]
          /\ resolved' = [resolved EXCEPT ![h] =
                 IF is_ready(result) THEN @ \cup {CallSlot(h).id} ELSE @]
          /\ sockErr' = IF result.val = "Err" THEN FALSE ELSE sockErr
          /\ UNCHANGED <<nHelpers, writable, sendBlocked>>

\* AsyncUdpSocket::try_send: Ok(n), or WouldBlock and the socket's readiness
\* is cleared, or an I/O error
try_send ==
    /\ \/ /\ sockErr
          /\ sendBlocked' = FALSE
          /\ sockErr' = FALSE
          /\ UNCHANGED writable
       \/ /\ ~sockErr /\ writable
          /\ sendBlocked' = FALSE
          /\ UNCHANGED <<writable, sockErr>>
       \/ /\ ~sockErr
          /\ sendBlocked' = TRUE
          /\ writable' = FALSE
          /\ UNCHANGED sockErr
    /\ UNCHANGED <<nHelpers, fut, factoryCalls, readyCount, polls, last, prev, resolved>>

\* the OS reports the socket writable: registered wakers are woken
SocketWritable ==
    /\ ~writable
    /\ writable' = TRUE
    /\ fut' = [h \in Helpers |-> Notify(fut[h])]
    /\ UNCHANGED <<nHelpers, factoryCalls, readyCount, polls, last, prev, resolved,
                   sockErr, sendBlocked>>

\* the OS reports an error on the socket: registered wakers are woken
SocketError ==
    /\ ~sockErr
    /\ sockErr' = TRUE
    /\ fut' = [h \in Helpers |-> Notify(fut[h])]
    /\ UNCHANGED <<nHelpers, factoryCalls, readyCount, polls, last, prev, resolved,
                   writable, sendBlocked>>

\* ------------------------------------------------------ runtime selection
\* Option<Arc<dyn Runtime>>, by the name of the Runtime it holds
Backends == {"TokioRuntime", "AsyncStdRuntime", "None"}

\* default_runtime(): ft, fa are the cfg features compiled in, ctx is
\* ::tokio::runtime::Handle::try_current().is_ok() at the call
default_runtime_no_cfg(ft, fa, ctx) ==
    IF ctx THEN "TokioRuntime"
    ELSE IF fa THEN "AsyncStdRuntime"
    ELSE "None"
default_runtime_async_std_first(ft, fa, ctx) ==
    IF fa THEN "AsyncStdRuntime"
    ELSE IF ft /\ ctx THEN "TokioRuntime"
    ELSE "None"
default_runtime_cached(ft, fa, ctx) ==
    IF history # <<>> THEN history[1].result
    ELSE IF ft /\ ctx THEN "TokioRuntime"
    ELSE IF fa THEN "AsyncStdRuntime"
    ELSE "None"
default_runtime(ft, fa, ctx) ==
    IF ft /\ ctx THEN "TokioRuntime"
    ELSE IF fa THEN "AsyncStdRuntime"
    ELSE "None"

InitRuntimeIdle ==
    /\ feature_tokio = FALSE
    /\ feature_async_std = FALSE
    /\ inTokio = FALSE
    /\ history = <<>>

\* the crate is built with any set of the two runtime features; the first
\* call may be made inside or outside a Tokio runtime
InitRuntime ==
    /\ feature_tokio \in BOOLEAN
    /\ feature_async_std \in BOOLEAN
    /\ inTokio \in BOOLEAN
    /\ history = <<>>

\* the caller enters a Tokio runtime context (Runtime::enter, a spawned task)
EnterTokio ==
    /\ ~inTokio
    /\ inTokio' = TRUE
    /\ UNCHANGED <<feature_tokio, feature_async_std, history>>

\* the caller leaves the Tokio runtime context
LeaveTokio ==
    /\ inTokio
    /\ inTokio' = FALSE
    /\ UNCHANGED <<feature_tokio, feature_async_std, history>>

\* one call of default_runtime()
CallDefaultRuntime ==
    /\ Len(history) < MaxCalls
    /\ history' = Append(history,
           [ctx |-> inTokio,
            result |-> default_runtime(feature_tokio, feature_async_std, inTokio)])
    /\ UNCHANGED <<feature_tokio, feature_async_std, inTokio>>

\* ------------------------------------------------------------- AsyncTimer
\* The timer of a backend: Idle(deadline) until polled, then Pending (the
\* caller is registered for the deadline) or Fired.

\* AsyncTimer::reset(i): any state goes back to Idle(i)
reset_keeps_registration(tm, d) ==
    IF tm.state = "Pending" THEN tm ELSE [state |-> "Idle", deadline |-> d]
reset(tm, d) == [state |-> "Idle", deadline |-> d]

\* AsyncTimer::poll: fired when the deadline is due and this deadline has not
\* been reported yet
PollFires_level(tm, n) == tm.deadline <= n
PollFires(tm, n) == tm.state # "Fired" /\ tm.deadline <= n

\* the timer after a poll at time n
poll(tm, n) ==
    IF tm.state = "Fired" THEN tm
    ELSE IF PollFires(tm, n) THEN [tm EXCEPT !.state = "Fired"]
    ELSE [tm EXCEPT !.state = "Pending"]

TimerEvent(e, d, n, f) == [ev |-> e, deadline |-> d, at |-> n, fired |-> f]

InitTimerIdle ==
    /\ now = 0
    /\ timer = [state |-> "Idle", deadline |-> 0]
    /\ ttrace = <<TimerEvent("new", 0, 0, FALSE)>>

\* Runtime::new_timer(i): a timer armed for any deadline
InitTimer ==
    /\ now = 0
    /\ timer \in [state : {"Idle"}, deadline : Times]
    /\ ttrace = <<TimerEvent("new", timer.deadline, 0, FALSE)>>

\* time passes
Tick ==
    /\ now < MaxTime
    /\ now' = now + 1
    /\ UNCHANGED <<timer, ttrace>>

TimerReset(d) ==
    /\ Len(ttrace) <= MaxTimerOps
    /\ timer' = reset(timer, d)
    /\ ttrace' = Append(ttrace, TimerEvent("reset", d, now, FALSE))
    /\ UNCHANGED now

TimerPoll ==
    /\ Len(ttrace) <= MaxTimerOps
    /\ timer' = poll(timer, now)
    /\ ttrace' = Append(ttrace,
           TimerEvent("poll", timer.deadline, now, PollFires(timer, now)))
    /\ UNCHANGED now

\* ------------------------------------------------ AsyncUdpSocket::poll_recv
\* The receive side of a backend's socket: datagrams the OS has buffered stay
\* buffered until a poll_recv call returns them.

\* a datagram d arrives while the caller's wait is in state w
RecvEnqueue_to_waiter(q, d, w) == IF w = "dropped" THEN q ELSE Append(q, d)
RecvEnqueue(q, d, w) == Append(q, d)

\* the buffered datagrams after a pending wait is abandoned
RecvQueueAfterDrop(q) == q

\* the number of slots poll_recv fills out of k supplied
RecvCount(q, k) == IF Len(q) < k THEN Len(q) ELSE k

NoRecv == [ret |-> "none", data |-> <<>>, slots |-> 0, queueBefore |-> <<>>,
           afterDrop |-> FALSE, sinceDrop |-> 0]

InitRecv ==
    /\ rqueue = <<>>
    /\ arrived = 0
    /\ delivered = <<>>
    /\ rwait = "none"
    /\ dropMark = 0
    /\ rlast = NoRecv

\* the OS buffers one more datagram and wakes a registered receiver
DatagramArrives ==
    /\ arrived < MaxDatagrams
    /\ arrived' = arrived + 1
    /\ rqueue' = RecvEnqueue(rqueue, arrived + 1, rwait)
    /\ rwait' = IF rwait = "registered" THEN "woken" ELSE rwait
    /\ UNCHANGED <<delivered, dropMark, rlast>>

\* AsyncUdpSocket::poll_recv(cx, bufs, meta) with k receive slots
poll_recv(k) ==
    /\ LET n == RecvCount(rqueue, k)
           got == SubSeq(rqueue, 1, n)
       IN /\ rlast' = [ret |-> IF n = 0 THEN "Pending" ELSE "Ready",
                       data |-> got, slots |-> k, queueBefore |-> rqueue,
                       afterDrop |-> rwait = "dropped",
                       sinceDrop |-> IF rwait = "dropped" THEN arrived - dropMark ELSE 0]
          /\ rqueue' = SubSeq(rqueue, n + 1, Len(rqueue))
          /\ delivered' = delivered \o got
          /\ rwait' = IF n = 0 THEN "registered" ELSE "none"
    /\ UNCHANGED <<arrived, dropMark>>

\* the caller abandons its pending poll_recv wait
DropRecvWait ==
    /\ rwait \in {"registered", "woken"}
    /\ rwait' = "dropped"
    /\ dropMark' = arrived
    /\ rqueue' = RecvQueueAfterDrop(rqueue)
    /\ UNCHANGED <<arrived, delivered, rlast>>

\* ------------------------------------------- AsyncUdpSocket capabilities
Methods == {"max_transmit_segments", "max_receive_segments", "may_fragment"}

\* the provided methods of the trait
max_transmit_segments == 1
max_receive_segments == 1
may_fragment_false == FALSE
may_fragment == TRUE

TraitDefault(m) ==
    CASE m = "max_transmit_segments" -> max_transmit_segments
      [] m = "max_receive_segments" -> max_receive_segments
      [] m = "may_fragment" -> may_fragment

\* an implementation overrides a provided method or leaves it alone
SegmentImpls == {[some |-> FALSE, val |-> 0]} \cup
                {[some |-> TRUE, val |-> n] : n \in 1..MaxSegments}
FragmentImpls == {[some |-> FALSE, val |-> FALSE]} \cup
                 {[some |-> TRUE, val |-> b] : b \in BOOLEAN}

\* socket.m(): the override when the implementation has one, else the trait's
Capability(m) == IF caps[m].some THEN caps[m].val ELSE TraitDefault(m)

InitCapsIdle ==
    /\ caps = [max_transmit_segments |-> [some |-> FALSE, val |-> 0],
               max_receive_segments |-> [some |-> FALSE, val |-> 0],
               may_fragment |-> [some |-> FALSE, val |-> FALSE]]
    /\ caplog = <<>>

\* any implementation of the trait
InitCaps ==
    /\ caps \in [max_transmit_segments : SegmentImpls,
                 max_receive_segments : SegmentImpls,
                 may_fragment : FragmentImpls]
    /\ caplog = <<>>

\* one call of a capability method
CallCapability(m) ==
    /\ Len(caplog) < MaxQueries
    /\ caplog' = Append(caplog, [method |-> m, value |-> Capability(m)])
    /\ UNCHANGED caps

\* -------------------------------------------- a caller that keeps polling
\* one helper exists and its owner calls poll_writable again and again; the
\* counts of the run are not kept
InitLivePoller ==
    /\ nHelpers = 1
    /\ fut = [h \in Helpers |-> IF h = 1 THEN UdpPollHelper_new ELSE None]
    /\ factoryCalls = [h \in Helpers |-> 0]
    /\ readyCount = [h \in Helpers |-> 0]
    /\ polls = [h \in Helpers |-> 0]
    /\ last = [h \in Helpers |-> NoCall]
    /\ prev = [h \in Helpers |-> NoPrev]
    /\ resolved = [h \in Helpers |-> {}]
    /\ writable = TRUE
    /\ sockErr = FALSE
    /\ sendBlocked = FALSE

\* UdpPollHelper::poll_writable, as in poll_writable(h, t), uncounted
poll_writable_again(h, t) ==
    /\ h \in 1..nHelpers
    /\ fut' = [fut EXCEPT ![h] = CallSlotAfter(h, t)]
    /\ prev' = [prev EXCEPT ![h] = [kind |-> last[h].ret.kind, op |-> last[h].op,
                                     slotBefore |-> last[h].slotBefore,
                                     task |-> last[h].task]]
    /\ last' = [last EXCEPT ![h] = CallRecord(h, t, 0)]
    /\ sockErr' = IF CallResult(h).val = "Err" THEN FALSE ELSE sockErr
    /\ UNCHANGED <<nHelpers, factoryCalls, readyCount, polls, resolved,
                   writable, sendBlocked>>

\* ----------------------------------------------------------- specifications
Init == InitPoller /\ InitRuntimeIdle /\ InitTimerIdle /\ InitRecv /\ InitCapsIdle

Next ==
    \/ create_io_poller /\ UNCHANGED <<runtimeVars, timerVars, recvVars, capVars>>
    \/ \E h \in Helpers, t \in Tasks :
          poll_writable(h, t) /\ UNCHANGED <<runtimeVars, timerVars, recvVars, capVars>>
    \/ try_send /\ UNCHANGED <<runtimeVars, timerVars, recvVars, capVars>>
    \/ SocketWritable /\ UNCHANGED <<runtimeVars, timerVars, recvVars, capVars>>
    \/ SocketError /\ UNCHANGED <<runtimeVars, timerVars, recvVars, capVars>>

\* the poller adapter over one socket
Spec == Init /\ [][Next]_vars

InitSelect == InitPoller /\ InitRuntime /\ InitTimerIdle /\ InitRecv /\ InitCapsIdle

NextSelect ==
    \/ EnterTokio /\ UNCHANGED <<pollerVars, timerVars, recvVars, capVars>>
    \/ LeaveTokio /\ UNCHANGED <<pollerVars, timerVars, recvVars, capVars>>
    \/ CallDefaultRuntime /\ UNCHANGED <<pollerVars, timerVars, recvVars, capVars>>

\* runtime selection
SpecRuntime == InitSelect /\ [][NextSelect]_vars

InitClock == InitPoller /\ InitRuntimeIdle /\ InitTimer /\ InitRecv /\ InitCapsIdle

NextTimer ==
    \/ Tick /\ UNCHANGED <<pollerVars, runtimeVars, recvVars, capVars>>
    \/ (\E d \in Times : TimerReset(d)) /\ UNCHANGED <<pollerVars, runtimeVars, recvVars, capVars>>
    \/ TimerPoll /\ UNCHANGED <<pollerVars, runtimeVars, recvVars, capVars>>

\* one timer and the clock
SpecTimer == InitClock /\ [][NextTimer]_vars

InitReceive == InitPoller /\ InitRuntimeIdle /\ InitTimerIdle /\ InitRecv /\ InitCapsIdle

NextRecv ==
    \/ DatagramArrives /\ UNCHANGED <<pollerVars, runtimeVars, timerVars, capVars>>
    \/ (\E k \in 1..MaxSlots : poll_recv(k))
          /\ UNCHANGED <<pollerVars, runtimeVars, timerVars, capVars>>
    \/ DropRecvWait /\ UNCHANGED <<pollerVars, runtimeVars, timerVars, capVars>>

\* the receive side of one socket
SpecRecv == InitReceive /\ [][NextRecv]_vars

InitImpl == InitPoller /\ InitRuntimeIdle /\ InitTimerIdle /\ InitRecv /\ InitCaps

NextCaps ==
    \E m \in Methods :
        CallCapability(m) /\ UNCHANGED <<pollerVars, runtimeVars, timerVars, recvVars>>

\* the capability methods of one socket implementation
SpecCaps == InitImpl /\ [][NextCaps]_vars

InitLive == InitLivePoller /\ InitRuntimeIdle /\ InitTimerIdle /\ InitRecv /\ InitCapsIdle

LivePoll(h) ==
    \E t \in Tasks :
        poll_writable_again(h, t) /\ UNCHANGED <<runtimeVars, timerVars, recvVars, capVars>>

\* a poll_writable call made while the socket is ready
ResolvingPoll(h) == SockReady /\ LivePoll(h)

\* the socket becomes writable again
LiveWritable == SocketWritable /\ UNCHANGED <<runtimeVars, timerVars, recvVars, capVars>>

NextLive ==
    \/ \E h \in Helpers : LivePoll(h)
    \/ try_send /\ UNCHANGED <<runtimeVars, timerVars, recvVars, capVars>>
    \/ LiveWritable
    \/ SocketError /\ UNCHANGED <<runtimeVars, timerVars, recvVars, capVars>>

\* the owner keeps calling poll_writable, and every operation the factory
\* produces resolves after finitely many polls: a socket that is not
\* writable becomes writable, and again and again a poll finds it ready
SpecLive ==
    /\ InitLive /\ [][NextLive]_vars
    /\ WF_vars(LiveWritable)
    /\ \A h \in Helpers : WF_vars(LivePoll(h)) /\ SF_vars(ResolvingPoll(h))

\* ------------------------------------------------------------------ claims
Polled(h) == h \in 1..nHelpers /\ polls[h] >= 1
PolledTwice(h) == h \in 1..nHelpers /\ polls[h] >= 2

\* C1: the factory is invoked at most once per wait cycle: a poll_writable
\* call invokes it only when the slot was empty, never when the call before it
\* on the same helper returned Pending, so the invocations never exceed the
\* resolved cycles plus the one in progress.
C1_FactoryOncePerCycle ==
    \A h \in Helpers :
        /\ Polled(h) /\ last[h].invoked => last[h].slotBefore = 0
        /\ PolledTwice(h) /\ prev[h].kind = "Pending" => ~last[h].invoked
        /\ factoryCalls[h] <= readyCount[h] + 1

\* three consecutive calls on one helper, none resolved, one factory invocation
C1_Witness ==
    \E h \in Helpers :
        /\ polls[h] = 3 /\ readyCount[h] = 0
        /\ factoryCalls[h] = 1 /\ ~last[h].invoked

\* C2: when poll_writable returns Ready, with Ok or with an error, the slot
\* is empty afterwards and the value is the one the operation polled in this
\* call resolved with.
C2_ReadyClearsSlot ==
    \A h \in Helpers :
        Polled(h) /\ is_ready(last[h].ret) =>
            /\ fut[h] = None
            /\ last[h].ret.val \in {"Ok", "Err"}
            /\ last[h].op # 0 /\ last[h].ret.op = last[h].op

\* one helper returned Ready(Ok), another Ready(Err), both slots empty
C2_Witness ==
    \E g, h \in Helpers :
        /\ Polled(g) /\ last[g].ret = Ready("Ok", last[g].op)
        /\ Polled(h) /\ last[h].ret = Ready("Err", last[h].op)
        /\ fut[g] = None /\ fut[h] = None

\* C3: when poll_writable returns Pending the slot keeps the operation it
\* polled, and the next call polls that operation without invoking the factory.
C3_PendingKeepsOperation ==
    \A h \in Helpers :
        /\ Polled(h) /\ ~is_ready(last[h].ret) =>
              fut[h].id # 0 /\ fut[h].id = last[h].op
        /\ PolledTwice(h) /\ prev[h].kind = "Pending" =>
              last[h].op = prev[h].op /\ last[h].slotBefore = prev[h].op
              /\ ~last[h].invoked

\* a call returned Pending and the next call resolved that same operation
C3_Witness ==
    \E h \in Helpers :
        /\ PolledTwice(h) /\ prev[h].kind = "Pending"
        /\ is_ready(last[h].ret) /\ last[h].ret.op = prev[h].op

Called(i) == i \in 1..Len(history)

\* C4: with neither runtime-tokio nor runtime-async-std compiled in, every
\* default_runtime call returns None, inside a Tokio context or outside.
C4_NoBackendGivesNone ==
    ~feature_tokio /\ ~feature_async_std =>
        \A i \in 1..Len(history) : history[i].result = "None"

\* no backend compiled in, called both inside and outside a Tokio context
C4_Witness ==
    /\ ~feature_tokio /\ ~feature_async_std
    /\ \E i, j \in 1..Len(history) : history[i].ctx /\ ~history[j].ctx

\* C5: default_runtime returns TokioRuntime if runtime-tokio is enabled and
\* the call is made inside a Tokio context; otherwise AsyncStdRuntime if
\* runtime-async-std is enabled; otherwise None.
C5_SelectionOrder ==
    \A i \in 1..Len(history) :
        LET r == history[i] IN
        /\ feature_tokio /\ r.ctx => r.result = "TokioRuntime"
        /\ ~(feature_tokio /\ r.ctx) /\ feature_async_std => r.result = "AsyncStdRuntime"
        /\ ~(feature_tokio /\ r.ctx) /\ ~feature_async_std => r.result = "None"

\* both backends compiled in: Tokio chosen inside a Tokio context, async-std outside
C5_Witness ==
    /\ feature_tokio /\ feature_async_std
    /\ \E i, j \in 1..Len(history) :
          /\ history[i].ctx /\ history[i].result = "TokioRuntime"
          /\ ~history[j].ctx /\ history[j].result = "AsyncStdRuntime"

\* C6: selection keeps no state between calls: two calls made in the same
\* ambient context give the same result whatever was called between them, and
\* a call inside a Tokio context that follows a call outside one yields the
\* Tokio backend when it is compiled in.
C6_FreshProbe ==
    /\ \A i, j \in 1..Len(history) :
          history[i].ctx = history[j].ctx => history[i].result = history[j].result
    /\ \A i \in 1..Len(history) :
          Called(i + 1) /\ feature_tokio /\ ~history[i].ctx /\ history[i + 1].ctx =>
              history[i + 1].result = "TokioRuntime"

\* a call outside a Tokio context, then one inside it that returns Tokio,
\* then one outside again that returns what the first did
C6_Witness ==
    /\ feature_tokio /\ Len(history) = 3
    /\ ~history[1].ctx /\ history[1].result # "TokioRuntime"
    /\ history[2].ctx /\ history[2].result = "TokioRuntime"
    /\ ~history[3].ctx /\ history[3].result = history[1].result

\* C7: a new helper starts with an empty slot, and its first poll_writable
\* invokes the factory and reports the result of that new operation, whatever
\* other helpers reported before.
C7_FreshPollerIndependent ==
    \A h \in 1..nHelpers :
        /\ polls[h] = 0 => fut[h] = None /\ factoryCalls[h] = 0
        /\ polls[h] = 1 =>
              /\ last[h].invoked /\ last[h].slotBefore = 0
              /\ last[h].op = 1 /\ factoryCalls[h] = 1
              /\ is_ready(last[h].ret) => last[h].ret.op = last[h].op
              /\ ~is_ready(last[h].ret) => fut[h].id = last[h].op

\* an earlier helper reported writable, the first poll of a later one is Pending
C7_Witness ==
    \E g, h \in Helpers :
        /\ g < h /\ Polled(g) /\ polls[h] = 1
        /\ last[g].ret = Ready("Ok", last[g].op)
        /\ last[g].seq < last[h].seq
        /\ last[h].ret = Pending /\ fut[h].id = 1

\* C8: poll_writable made while the socket is ready returns Ready, also when
\* the try_send before it returned WouldBlock; and a helper left Pending is
\* never parked on a ready socket without its waker having been invoked.
C8_NoLostWakeup ==
    \A h \in Helpers :
        /\ Polled(h) /\ last[h].sockReady => is_ready(last[h].ret)
        /\ fut[h].id # 0 /\ SockReady => fut[h].waker # 0 /\ fut[h].notified

\* try_send returned WouldBlock, the socket became writable, and the first
\* poll_writable of a helper after that reported it
C8_Witness ==
    \E h \in Helpers :
        /\ polls[h] = 1 /\ last[h].sendBlocked /\ last[h].sockReady
        /\ last[h].ret = Ready("Ok", 1)

\* the reset or construction event whose deadline is armed at event i
RECURSIVE ArmedAt(_)
ArmedAt(i) == IF ttrace[i].ev \in {"new", "reset"} THEN i ELSE ArmedAt(i - 1)

IsPoll(i) == i \in 1..Len(ttrace) /\ ttrace[i].ev = "poll"

\* C9: the poll that follows a reset is evaluated against the new deadline:
\* it reports fired exactly when the new deadline is due, whatever the timer
\* was waiting for before.
C9_ResetReevaluates ==
    \A i \in 2..Len(ttrace) :
        IsPoll(i) /\ ttrace[i - 1].ev = "reset" =>
            /\ ttrace[i].deadline = ttrace[i - 1].deadline
            /\ ttrace[i].fired <=> ttrace[i - 1].deadline <= ttrace[i].at

\* a poll returned Pending for a deadline in the future, the timer was reset
\* to a deadline already due, and the next poll reported fired
C9_Witness ==
    \E i \in 3..Len(ttrace) :
        /\ IsPoll(i - 2) /\ ~ttrace[i - 2].fired
        /\ ttrace[i - 2].deadline > ttrace[i].at
        /\ ttrace[i - 1].ev = "reset" /\ ttrace[i - 1].deadline <= ttrace[i - 1].at
        /\ IsPoll(i) /\ ttrace[i].fired

C13_PolledWithCallersContext ==
    \A h \in Helpers :
        Polled(h) =>
            /\ last[h].op # 0
            /\ last[h].op = (IF last[h].invoked THEN factoryCalls[h] ELSE last[h].slotBefore)
            /\ fut[h].id # 0 => fut[h].waker = last[h].task

\* an operation left Pending by task 1 was polled again by task 2, and now
\* holds the waker of task 2
C13_Witness ==
    \E h \in Helpers :
        /\ PolledTwice(h) /\ prev[h].kind = "Pending" /\ prev[h].task = 1
        /\ last[h].ret = Pending /\ last[h].op = prev[h].op
        /\ last[h].task = 2 /\ fut[h].waker = 2

\* C14: a call made after the helper returned Ready starts a new wait cycle:
\* it invokes the factory once more and its result comes from the new
\* operation, never from the one the previous cycle resolved.
C14_ReuseStartsNewCycle ==
    \A h \in Helpers :
        PolledTwice(h) /\ prev[h].kind = "Ready" =>
            /\ last[h].invoked /\ last[h].slotBefore = 0
            /\ last[h].op = prev[h].op + 1 /\ last[h].op = factoryCalls[h]
            /\ is_ready(last[h].ret) => last[h].ret.op = last[h].op

\* a helper returned Ready, was polled again and resolved a second
\* operation with Ok
C14_Witness ==
    \E h \in Helpers :
        /\ PolledTwice(h) /\ prev[h].kind = "Ready" /\ prev[h].op = 1
        /\ 1 \in resolved[h] /\ last[h].ret = Ready("Ok", 2) /\ readyCount[h] = 2

\* C15: the slot holds an operation whenever line 107 reads it, so the
\* unwrap never panics, in the call that fills the slot and in the calls
\* that find it filled.
C15_UnwrapNeverFails ==
    \A h \in Helpers :
        Polled(h) => last[h].ret.kind # "Panic" /\ last[h].op # 0

\* one helper's last call filled the slot, another's found it filled
C15_Witness ==
    \E g, h \in Helpers :
        /\ Polled(g) /\ last[g].invoked /\ last[g].op # 0
        /\ Polled(h) /\ ~last[h].invoked /\ last[h].op # 0

\* C16: no operation is polled after it returned Ready: the operation a call
\* polls has never resolved before, each operation resolves at most once, and
\* a resolved operation is not in the slot.
C16_NoPollAfterReady ==
    \A h \in Helpers :
        /\ Polled(h) => ~last[h].stale
        /\ Cardinality(resolved[h]) = readyCount[h]
        /\ fut[h].id \notin resolved[h]

\* an operation was polled with Pending, then with Ready, and the next call
\* polled a new one
C16_Witness ==
    \E h \in Helpers :
        /\ polls[h] = 3 /\ resolved[h] = {1}
        /\ last[h].op = 2 /\ prev[h].kind = "Ready" /\ prev[h].slotBefore = 1

\* C17: between calls, the factory invocations equal the calls that returned
\* Ready plus one if the slot is non-empty, and the slot is non-empty exactly
\* when the last call returned Pending.
C17_FactoryCountInvariant ==
    \A h \in Helpers :
        /\ factoryCalls[h] = readyCount[h] + (IF fut[h].id # 0 THEN 1 ELSE 0)
        /\ fut[h].id # 0 <=> (Polled(h) /\ last[h].ret.kind = "Pending")

\* two resolved cycles and a third in progress on one helper
C17_Witness ==
    \E h \in Helpers :
        factoryCalls[h] = 3 /\ readyCount[h] = 2 /\ fut[h].id = 3

\* C11: abandoning a pending poll_recv discards nothing: every datagram that
\* arrived is either buffered or was returned by a poll_recv, in order; and
\* the poll_recv that follows a dropped wait, once a datagram has arrived,
\* returns the oldest datagram not yet returned.
C11_CancelKeepsData ==
    /\ delivered \o rqueue = [i \in 1..arrived |-> i]
    /\ rlast.afterDrop /\ rlast.sinceDrop > 0 =>
          /\ rlast.ret = "Ready" /\ rlast.data # <<>>
          /\ rlast.data[1] = Len(delivered) - Len(rlast.data) + 1

\* poll_recv returned not-ready, the wait was dropped, one datagram arrived,
\* and the second poll_recv returned it
C11_Witness ==
    /\ rlast.afterDrop /\ rlast.sinceDrop = 1
    /\ rlast.ret = "Ready" /\ rlast.data = <<dropMark + 1>>
    /\ rlast.queueBefore = rlast.data /\ rwait = "none"

NoOverrides == \A m \in Methods : ~caps[m].some

\* C12: an implementation that overrides none of the capability methods
\* returns 1 from max_transmit_segments, 1 from max_receive_segments and
\* true from may_fragment.
C12_DefaultCapabilities ==
    NoOverrides =>
        \A i \in 1..Len(caplog) :
            /\ caplog[i].method = "max_transmit_segments" => caplog[i].value = 1
            /\ caplog[i].method = "max_receive_segments" => caplog[i].value = 1
            /\ caplog[i].method = "may_fragment" => caplog[i].value = TRUE

\* no method overridden and each of the three has been called
C12_Witness ==
    /\ NoOverrides
    /\ \A m \in Methods : \E i \in 1..Len(caplog) : caplog[i].method = m

\* C18: while the owner keeps calling and the operations resolve, the helper
\* returns Ready again and again; a call made while the socket is ready never
\* returns Pending.
C18_EventuallyReady ==
    /\ \A h \in Helpers : (h \in 1..nHelpers) ~> (last[h].ret.kind = "Ready")
    /\ [](\A h \in Helpers :
             last[h].task # 0 /\ last[h].sockReady => is_ready(last[h].ret))

\* a call returned Pending and a later call on the same operation returned Ready
C18_Witness ==
    \E h \in Helpers :
        /\ prev[h].kind = "Pending" /\ is_ready(last[h].ret)
        /\ last[h].slotBefore # 0 /\ fut[h] = None

====
